---- MODULE Spec2Model ----
(***************************************************************************)
(* FoaieParcurs (src/app.py): the geocoding provider chain with its disk   *)
(* cache, the OSRM routing client with its retry wrapper, and the segment  *)
(* computation of the "Calculeaza traseul" handler.                        *)
(*                                                                         *)
(* The program is single-threaded and synchronous.  A call of an engine    *)
(* function (geocode_candidates, route_osrm_retry) is one step; the        *)
(* answers of the external services are the nondeterministic inputs of the *)
(* step.  `trace` is the log of what the call made by the latest step did  *)
(* (rate-limiter calls, provider calls, sleeps, cache-file writes), `call` *)
(* names that call and `ret` is what it returned.  A provider call is the  *)
(* call of _locationiq_cached / _nominatim_cached / _mapsco_cached /       *)
(* _route_osrm_cached: it raises or returns.  Streamlit is taken to be     *)
(* importable (st is not None), as it is whenever the application runs.    *)
(***************************************************************************)
EXTENDS Integers, Sequences, FiniteSets, TLC

(***************************************************************************)
(* Text.  A string is a sequence of characters, so that strip() and the    *)
(* f-string of the cache key are computed and not assumed.                 *)
(***************************************************************************)
Texts == {<<" ">>, <<"a">>, <<" ", "a", " ">>}

RECURSIVE LStrip(_)
LStrip(s) == IF s # <<>> /\ Head(s) = " " THEN LStrip(Tail(s)) ELSE s

RECURSIVE RStrip(_)
RStrip(s) == IF s # <<>> /\ s[Len(s)] = " " THEN RStrip(SubSeq(s, 1, Len(s) - 1)) ELSE s

Strip(s) == RStrip(LStrip(s))

Digits == <<"0", "1", "2", "3", "4", "5", "6", "7", "8", "9">>

\* str(n) of a one-digit n: the limits the program passes are 6 and 1.
IntStr(n) == <<Digits[n + 1]>>

Limits == {1, 6}

\* disk_key = f"{q_eff}|{limit}"
DiskKey(q_eff, limit) == q_eff \o <<"|">> \o IntStr(limit)

(***************************************************************************)
(* Candidates and what a provider call can do.                             *)
(***************************************************************************)
CandA == [lat |-> 44, lon |-> 26, display |-> <<"A">>]
CandB == [lat |-> 45, lon |-> 25, display |-> <<"B">>]

CandLists == {<<>>, <<CandA>>, <<CandB, CandA>>}

\* how a provider request fails: the failures differ in their message only
Errs == {"http"}

ProviderOutcome ==
    {[kind |-> "raise", err |-> e, cands |-> <<>>] : e \in Errs}
        \cup {[kind |-> "ok", err |-> "", cands |-> L] : L \in CandLists}

NoErr == <<>>

(***************************************************************************)
(* Time and the log of a call.  Time is counted in tenths of a second, and *)
(* from the moment the call began: m.now is what time.time() returns, and  *)
(* m.last[tag] is st.session_state["_last_<tag>_ts"], on that scale.  Only *)
(* waiting takes time: a sleep lasts what was asked for, a routing request *)
(* that times out lasts its timeout, and everything else is instantaneous. *)
(* An event of the log carries how long it lasted (dur) and the time at    *)
(* its end (at).                                                           *)
(***************************************************************************)
RATE_LIMIT_SECONDS == 10

Channels == {"geo", "route"}

\* what an event that is not a routing request has for the response
NoResponse == [kind |-> "", err |-> "", has_routes |-> FALSE, routes |-> <<>>]

Event(ev, who, res, err, val, dur) ==
    [ev |-> ev, who |-> who, res |-> res, err |-> err, val |-> val, dur |-> dur, at |-> 0,
     raw |-> NoResponse]

\* the event e took place: the clock moved by its duration
Log(m, e) ==
    [m EXCEPT !.now = @ + e.dur, !.trace = Append(@, [e EXCEPT !.at = m.now + e.dur])]

ResOf(o) == IF o.kind = "raise" THEN "raise" ELSE IF o.cands = <<>> THEN "empty" ELSE "cands"

ReqEvent(who, o) == Event("req", who, ResOf(o), o.err, o.cands, 0)

\* time.sleep(seconds), in tenths of a second
Sleep(m, tenths) == Log(m, Event("sleep", "", "", "", <<>>, tenths))

\* RespectRateLimit with one timestamp for every tag
RespectRateLimitOneKey(m, tag) ==
    LET last == m.last["geo"]
        now == m.now
        slept == IF now - last < RATE_LIMIT_SECONDS
                 THEN RATE_LIMIT_SECONDS - (now - last) ELSE 0
        m1 == Log(m, Event("rl", tag, "", "", <<>>, slept))
    IN  [m1 EXCEPT !.last = [c \in Channels |-> m1.now]]

\* RespectRateLimit storing `now`, the time read before the sleep
RespectRateLimitStoresNow(m, tag) ==
    LET last == m.last[tag]
        now == m.now
        slept == IF now - last < RATE_LIMIT_SECONDS
                 THEN RATE_LIMIT_SECONDS - (now - last) ELSE 0
        m1 == Log(m, Event("rl", tag, "", "", <<>>, slept))
    IN  [m1 EXCEPT !.last[tag] = now]

\* _respect_rate_limit(tag), lines 156-163
RespectRateLimit(m, tag) ==
    LET last == m.last[tag]
        now == m.now
        slept == IF now - last < RATE_LIMIT_SECONDS
                 THEN RATE_LIMIT_SECONDS - (now - last) ELSE 0
        m1 == Log(m, Event("rl", tag, "", "", <<>>, slept))
    IN  [m1 EXCEPT !.last[tag] = m1.now]

(***************************************************************************)
(* The cache file.  A file is missing, unreadable, not JSON, or a JSON     *)
(* document: an object with its members, an array, or null.  The members   *)
(* of the object and the elements of its arrays are kept as structure; a   *)
(* member name, a string and a number are kept as their JSON text.         *)
(***************************************************************************)
RECURSIVE NatStr(_)
NatStr(n) == IF n < 10 THEN <<Digits[n + 1]>>
             ELSE NatStr(n \div 10) \o <<Digits[(n % 10) + 1]>>

DigitVal(c) == CHOOSE d \in 0 .. 9 : Digits[d + 1] = c

RECURSIVE NatVal(_)
NatVal(t) == IF t = <<>> THEN 0
             ELSE 10 * NatVal(SubSeq(t, 1, Len(t) - 1)) + DigitVal(t[Len(t)])

\* json.dump of a float without a fraction: its digits and ".0"
FloatText(x) == NatStr(x) \o <<".", "0">>

\* json.load of such a number
FloatVal(t) ==
    LET dot == CHOOSE i \in 1 .. Len(t) : t[i] = "." /\ \A j \in 1 .. i - 1 : t[j] # "."
    IN  NatVal(SubSeq(t, 1, dot - 1))

RECURSIVE Escape(_)
Escape(str) ==
    IF str = <<>> THEN <<>>
    ELSE (IF Head(str) \in {"\"", "\\"} THEN <<"\\", Head(str)>> ELSE <<Head(str)>>)
             \o Escape(Tail(str))

RECURSIVE Unescape(_)
Unescape(t) ==
    IF t = <<>> THEN <<>>
    ELSE IF Head(t) = "\\" /\ Len(t) >= 2 THEN <<t[2]>> \o Unescape(SubSeq(t, 3, Len(t)))
    ELSE <<Head(t)>> \o Unescape(Tail(t))

\* json.dump of a str with ensure_ascii=False, and json.load of it
StringText(str) == <<"\"">> \o Escape(str) \o <<"\"">>

StringVal(t) == Unescape(SubSeq(t, 2, Len(t) - 1))

NoFile == [kind |-> "missing", type |-> "", members |-> <<>>]

Unreadable == [kind |-> "unreadable", type |-> "", members |-> <<>>]

NotJson == [kind |-> "notjson", type |-> "", members |-> <<>>]

JsonNull == [kind |-> "json", type |-> "null", members |-> <<>>]

JsonOfCand(c) ==
    [lat |-> FloatText(c.lat), lon |-> FloatText(c.lon), display |-> StringText(c.display)]

CandOfJson(j) ==
    [lat |-> FloatVal(j.lat), lon |-> FloatVal(j.lon), display |-> StringVal(j.display)]

\* JsonDump writing the first entry only
JsonDumpOneEntry(data) ==
    LET keep == IF DOMAIN data = {} THEN {} ELSE {CHOOSE k \in DOMAIN data : TRUE} IN
    [kind |-> "json", type |-> "object",
     members |-> [t \in {StringText(k) : k \in keep} |->
                     LET k == CHOOSE x \in keep : StringText(x) = t IN
                     [i \in 1 .. Len(data[k]) |-> JsonOfCand(data[k][i])]]]

\* json.dump(data, f, ensure_ascii=False, indent=2) of the dict data, line 145
JsonDump(data) ==
    [kind |-> "json", type |-> "object",
     members |-> [t \in {StringText(k) : k \in DOMAIN data} |->
                     LET k == CHOOSE x \in DOMAIN data : StringText(x) = t IN
                     [i \in 1 .. Len(data[k]) |-> JsonOfCand(data[k][i])]]]

\* json.load(f), line 139: the Python value of a JSON document, as its type
\* and, for a dict, its mapping
JsonLoad(file) ==
    IF file.type = "object"
    THEN [type |-> "dict",
          map |-> [k \in {StringVal(t) : t \in DOMAIN file.members} |->
                      LET t == CHOOSE x \in DOMAIN file.members : StringVal(x) = k IN
                      [i \in 1 .. Len(file.members[t]) |-> CandOfJson(file.members[t][i])]]]
    ELSE IF file.type = "array" THEN [type |-> "list", map |-> <<>>]
    ELSE [type |-> "NoneType", map |-> <<>>]

\* _load_json(path), lines 136-141
LoadJson(file) ==
    IF file.kind = "json" THEN JsonLoad(file) ELSE [type |-> "dict", map |-> <<>>]

\* _save_json(CACHE_FILE, _GEOCODE_DISK), lines 143-146: the file gets the
\* whole mapping; or open() fails and the file is as it was; or the write
\* fails after open() emptied the file.  The exception is swallowed.
SaveJson(m) ==
    { Log([m EXCEPT !.disk = JsonDump(m.cache)], Event("save", "", "ok", "", <<>>, 0)),
      Log(m, Event("save", "", "failed", "", <<>>, 0)),
      Log([m EXCEPT !.disk = NotJson], Event("save", "", "failed", "", <<>>, 0)) }

PutAlone(c, k, v) == [x \in {k} |-> v]

Put(c, k, v) == [x \in (DOMAIN c) \cup {k} |-> IF x = k THEN v ELSE c[x]]

(***************************************************************************)
(* geocode_candidates.  Each operator is the set of ways the rest of the   *)
(* function can run from the machine state m: a set of [m, ret, exc].      *)
(***************************************************************************)
Return(m, v) == [m |-> m, ret |-> v, exc |-> ""]

Raise(m, e) == [m |-> m, ret |-> <<>>, exc |-> e]

\* lines 221-223: record the source, drop the error
Tagged(m, who) == [m EXCEPT !.src = who, !.err = NoErr]

\* _GEOCODE_DISK[disk_key] = out works on a dict; on a list it raises
\* TypeError, inside the try of the provider that answered
Stores(m) == m.ctype = "dict"

\* Answered keeping the entry only when the file was written
AnsweredIfSaved(m, who, key, out) ==
    { Return(IF s.trace[Len(s.trace)].res = "ok" THEN s ELSE [s EXCEPT !.cache = m.cache],
             out) :
        s \in SaveJson([Tagged(m, who) EXCEPT !.cache = Put(@, key, out)]) }

\* A provider answered and the cache is a dict, lines 221-225: record the
\* source, drop the error, cache, save, return.
Answered(m, who, key, out) ==
    { Return(s, out) : s \in SaveJson([Tagged(m, who) EXCEPT !.cache = Put(@, key, out)]) }

\* lines 254-256
GiveUp(m, last_err) ==
    Return(IF last_err # NoErr THEN [m EXCEPT !.err = last_err] ELSE m, <<>>)

\* MapscoStep without its except clause: the failure of maps.co leaves the call
MapscoStepNoExcept(m, key, last_err) ==
    UNION { LET m1 == Log(RespectRateLimit(m, "geo"), ReqEvent("maps.co", o)) IN
            IF o.kind = "raise"
            THEN {Raise(m1, o.err)}
            ELSE IF o.cands # <<>>
                 THEN Answered(m1, "maps.co", key, o.cands)
                 ELSE {GiveUp(m1, last_err)}
          : o \in ProviderOutcome }

\* MapscoStep asking maps.co once more after a failure
MapscoStepTwice(m, key, last_err) ==
    UNION { LET m1 == Log(RespectRateLimit(m, "geo"), ReqEvent("maps.co", o)) IN
            IF o.kind = "raise"
            THEN MapscoStepNoExcept(m1, key, last_err)
            ELSE IF o.cands # <<>>
                 THEN Answered(m1, "maps.co", key, o.cands)
                 ELSE {GiveUp(m1, last_err)}
          : o \in ProviderOutcome }

\* lines 242-252
MapscoStep(m, key, last_err) ==
    UNION { LET m1 == Log(RespectRateLimit(m, "geo"), ReqEvent("maps.co", o)) IN
            IF o.kind = "raise"
            THEN {GiveUp(m1, IF last_err # NoErr THEN last_err ELSE <<"maps.co", o.err>>)}
            ELSE IF o.cands # <<>>
                 THEN IF Stores(m1)
                      THEN Answered(m1, "maps.co", key, o.cands)
                      ELSE {GiveUp(Tagged(m1, "maps.co"),
                                   IF last_err # NoErr THEN last_err
                                   ELSE <<"maps.co", "TypeError">>)}
                 ELSE {GiveUp(m1, last_err)}
          : o \in ProviderOutcome }

NOMINATIM_ATTEMPTS == 2

\* NominatimStep with range(1): one failure of Nominatim passes on to maps.co
NominatimStepOneAttempt(m, key, last_err, attempt) ==
    UNION { LET m1 == Log(RespectRateLimit(m, "geo"), ReqEvent("Nominatim", o)) IN
            IF o.kind = "raise"
            THEN MapscoStep(Sleep(m1, 4 * attempt), key, <<"Nominatim", o.err>>)
            ELSE Answered(m1, "Nominatim", key, o.cands)
          : o \in ProviderOutcome }

\* lines 229-240; 0.4 * attempt seconds of sleep after a failed attempt
RECURSIVE NominatimStep(_, _, _, _)
NominatimStep(m, key, last_err, attempt) ==
    IF attempt >= NOMINATIM_ATTEMPTS
    THEN MapscoStep(m, key, last_err)
    ELSE UNION { LET m1 == Log(RespectRateLimit(m, "geo"), ReqEvent("Nominatim", o)) IN
                 IF o.kind = "raise"
                 THEN NominatimStep(Sleep(m1, 4 * attempt), key,
                                    <<"Nominatim", o.err>>, attempt + 1)
                 ELSE IF Stores(m1)
                 THEN Answered(m1, "Nominatim", key, o.cands)
                 ELSE NominatimStep(Sleep(Tagged(m1, "Nominatim"), 4 * attempt), key,
                                    <<"Nominatim", "TypeError">>, attempt + 1)
               : o \in ProviderOutcome }

\* LocationIQStep without the test of LOCATIONIQ_KEY
LocationIQStepAnyway(m, key, haveKey) ==
    UNION { LET m1 == Log(RespectRateLimit(m, "geo"), ReqEvent("LocationIQ", o)) IN
            IF o.kind = "raise"
            THEN NominatimStep(m1, key, <<"LocationIQ", o.err>>, 0)
            ELSE Answered(m1, "LocationIQ", key, o.cands)
          : o \in ProviderOutcome }

\* lines 217-227
LocationIQStep(m, key, haveKey) ==
    IF haveKey
    THEN UNION { LET m1 == Log(RespectRateLimit(m, "geo"), ReqEvent("LocationIQ", o)) IN
                 IF o.kind = "raise"
                 THEN NominatimStep(m1, key, <<"LocationIQ", o.err>>, 0)
                 ELSE IF Stores(m1)
                 THEN Answered(m1, "LocationIQ", key, o.cands)
                 ELSE NominatimStep(Tagged(m1, "LocationIQ"), key,
                                    <<"LocationIQ", "TypeError">>, 0)
               : o \in ProviderOutcome }
    ELSE NominatimStep(m, key, NoErr, 0)

\* GeocodeCandidates without the return of line 210
GeocodeCandidatesNoBlankTest(m, q, limit, haveKey) ==
    LET q_eff == Strip(q)
        disk_key == DiskKey(q_eff, limit)
    IN  IF m.ctype = "NoneType" THEN {Raise(m, "TypeError")}
        ELSE IF Stores(m) /\ disk_key \in DOMAIN m.cache THEN {Return(m, m.cache[disk_key])}
        ELSE LocationIQStep(m, disk_key, haveKey)

\* GeocodeCandidates without the look-up of disk_key in _GEOCODE_DISK
GeocodeCandidatesNoLookup(m, q, limit, haveKey) ==
    LET q_eff == Strip(q)
        disk_key == DiskKey(q_eff, limit)
    IN  IF q_eff = <<>> THEN {Return(m, <<>>)}
        ELSE LocationIQStep(m, disk_key, haveKey)

\* lines 208-256; `disk_key in _GEOCODE_DISK` raises TypeError on None and is
\* False on an empty list
GeocodeCandidates(m, q, limit, haveKey) ==
    LET q_eff == Strip(q)
        disk_key == DiskKey(q_eff, limit)
    IN  IF q_eff = <<>> THEN {Return(m, <<>>)}
        ELSE IF m.ctype = "NoneType" THEN {Raise(m, "TypeError")}
        ELSE IF Stores(m) /\ disk_key \in DOMAIN m.cache THEN {Return(m, m.cache[disk_key])}
        ELSE LocationIQStep(m, disk_key, haveKey)

(***************************************************************************)
(* OSRM routing.  A response carries the routes array, or lacks it; a      *)
(* route carries its distance in metres and its geometry.  A float is kept *)
(* as the whole number of its thousandths, which is exact for the whole    *)
(* metres of the distances below.  The request fails by a timeout, by a    *)
(* status that raise_for_status rejects, or by a body that r.json() cannot *)
(* parse.                                                                  *)
(***************************************************************************)
RouteA == [distance |-> 12345, coords |-> <<"g1", "g2">>]
RouteB == [distance |-> 40, coords |-> <<>>]
RouteC == [distance |-> 0 - 60, coords |-> <<"g3">>]

RouteErrs == {"timeout", "http", "parse"}

RouteOutcome ==
    {[kind |-> "raise", err |-> e, has_routes |-> FALSE, routes |-> <<>>] : e \in RouteErrs}
        \cup {[kind |-> "ok", err |-> "", has_routes |-> FALSE, routes |-> <<>>]}
        \cup {[kind |-> "ok", err |-> "", has_routes |-> TRUE, routes |-> R] :
                  R \in {<<>>, <<RouteA>>, <<RouteB, RouteA>>, <<RouteC>>}}

\* timeout=20 of the routing request
ROUTE_TIMEOUT == 200

\* the float numer / denom, in thousandths
Thousandths(numer, denom) == (1000 * numer) \div denom

\* _route_osrm_cached after raise_for_status and r.json(), lines 266-274:
\* None is <<>>, a result dict is a one-element sequence.
RouteOsrmCached(o) ==
    LET routes == IF o.has_routes THEN o.routes ELSE <<>> IN
    IF routes = <<>> THEN <<>>
    ELSE <<[km |-> Thousandths(routes[1].distance, 1000), coords |-> routes[1].coords]>>

\* the request of _route_osrm_cached, with what the service did (raw)
RouteReqEvent(o) ==
    [Event("req", "OSRM",
           IF o.kind = "raise" THEN "raise"
           ELSE IF RouteOsrmCached(o) = <<>> THEN "noroute" ELSE "route",
           o.err, IF o.kind = "raise" THEN <<>> ELSE RouteOsrmCached(o),
           IF o.kind = "raise" /\ o.err = "timeout" THEN ROUTE_TIMEOUT ELSE 0)
     EXCEPT !.raw = o]

\* RouteOsrm without its except clause
RouteOsrmNoExcept(m) ==
    { LET m1 == Log(RespectRateLimit(m, "route"), RouteReqEvent(o)) IN
      IF o.kind = "raise" THEN Raise(m1, o.err) ELSE Return(m1, RouteOsrmCached(o))
    : o \in RouteOutcome }

\* RouteOsrm without its _respect_rate_limit("route")
RouteOsrmUnlimited(m) ==
    { LET m1 == Log(m, RouteReqEvent(o)) IN
      IF o.kind = "raise" THEN Return(m1, <<>>) ELSE Return(m1, RouteOsrmCached(o))
    : o \in RouteOutcome }

\* route_osrm, lines 278-281
RouteOsrm(m) ==
    { LET m1 == Log(RespectRateLimit(m, "route"), RouteReqEvent(o)) IN
      IF o.kind = "raise" THEN Return(m1, <<>>) ELSE Return(m1, RouteOsrmCached(o))
    : o \in RouteOutcome }

Max(a, b) == IF a >= b THEN a ELSE b

\* the for loop of route_osrm_retry with n iterations left
RECURSIVE RetryLoop(_, _, _)
RetryLoop(m, n, res) ==
    IF n = 0 THEN {Return(m, res)}
    ELSE UNION { IF r.ret # <<>> THEN {r} ELSE RetryLoop(Sleep(r.m, 3), n - 1, r.ret)
               : r \in RouteOsrm(m) }

\* RouteOsrmRetry with one iteration too many
RouteOsrmRetryOneMore(m, tries) == RetryLoop(m, Max(1, tries) + 1, <<>>)

\* RouteOsrmRetry with range(tries)
RouteOsrmRetryAsAsked(m, tries) == RetryLoop(m, IF tries < 0 THEN 0 ELSE tries, <<>>)

\* route_osrm_retry, lines 283-291
RouteOsrmRetry(m, tries) == RetryLoop(m, Max(1, tries), <<>>)

(***************************************************************************)
(* State.                                                                  *)
(***************************************************************************)
VARIABLES
    LOCATIONIQ_KEY,     \* whether the LocationIQ credential is configured
    GEOCODE_DISK,       \* _GEOCODE_DISK: the in-memory cache mapping, when it is a dict
    disk_type,          \* type(_GEOCODE_DISK)
    cacheFile,          \* the content of CACHE_FILE
    geocode_source,     \* st.session_state["_geocode_source"], "" when absent
    geocode_error,      \* st.session_state["_geocode_error"], NoErr when absent
    producer,           \* history: per cache key, the provider whose answer was stored under it
    last_ts,            \* per tag: st.session_state["_last_<tag>_ts"], counted from the present
    call,               \* the engine call made by the latest step
    trace,              \* what that call did
    ret,                \* what it returned
    exc,                \* the exception that escaped it, "" when none
    stops_keys,         \* st.session_state.stops_keys
    session,            \* per address key: txt_<key>, <key>_lat, <key>_lon, <key>_display, <key>
    close_loop,         \* st.session_state["close_loop"]
    segments,           \* st.session_state["segments"]
    paths,              \* st.session_state["paths"]
    messages,           \* what the latest run of the compute handler showed
    runs,               \* how many times the compute button was pressed
    pc,                 \* where the compute handler stands, "idle" outside it
    idx,                \* its loop index
    pts,                \* its local pts
    issues,             \* its local issues
    segs,               \* its local segments
    path_coords_all     \* its local path_coords_all

engineVars == <<LOCATIONIQ_KEY, GEOCODE_DISK, disk_type, cacheFile, geocode_source,
                geocode_error, producer, last_ts, call, trace, ret, exc>>

uiVars == <<stops_keys, session, close_loop, segments, paths, messages, runs>>

calcVars == <<pc, idx, pts, issues, segs, path_coords_all>>

vars == <<engineVars, uiVars, calcVars>>

NoPoint == [lat |-> 0, lon |-> 0, display |-> <<>>]

NoCall ==
    [fn |-> "", q |-> <<>>, limit |-> 0, a |-> NoPoint, b |-> NoPoint, tries |-> 0, tag |-> "",
     x |-> 0, decimals |-> 0]

GeoCall(q, limit) == [NoCall EXCEPT !.fn = "geocode", !.q = q, !.limit = limit]

RouteCall(a, b, tries) == [NoCall EXCEPT !.fn = "route", !.a = a, !.b = b, !.tries = tries]

OsrmCall(a, b) == [NoCall EXCEPT !.fn = "route_osrm", !.a = a, !.b = b]

LimitCall(tag) == [NoCall EXCEPT !.fn = "limit", !.tag = tag]

LoadCall == [NoCall EXCEPT !.fn = "_load_json"]

RoundCall(x, decimals) == [NoCall EXCEPT !.fn = "km_round", !.x = x, !.decimals = decimals]

MaxTries == 2

Tries == (0 - 1) .. MaxTries

MaxStops == 2

\* the presses of the compute button a behaviour holds
MaxRuns == 1

KeyStart == <<"s", "t", "a", "r", "t">>

\* f"stop_{n}"
StopKey(n) == <<"s", "t", "o", "p", "_">> \o IntStr(n)

AllKeys == {KeyStart} \cup {StopKey(n) : n \in 0 .. MaxStops}

\* the session entries of an address key that was never filled: "" and None
NoAddr == [txt |-> <<>>, lat |-> 0, lon |-> 0, display |-> <<>>, alias |-> <<>>]

\* the text the start field is created with
DefaultStart == <<"a">>

\* what the user types into an address field
UiTexts == {<<"a">>, <<" ", "b">>}

\* the machine at the beginning of a call
Machine == [cache |-> GEOCODE_DISK, ctype |-> disk_type, disk |-> cacheFile,
            src |-> geocode_source, err |-> geocode_error, now |-> 0, last |-> last_ts,
            trace |-> <<>>]

\* A timestamp t, counted from the present.  The program only asks whether
\* now - t < RATE_LIMIT_SECONDS and, if so, what the difference is, so every
\* timestamp that far back or further stands for the same past; among them
\* is 0.0, what an absent session entry reads as.
Ago(t) == IF t < 0 - RATE_LIMIT_SECONDS THEN 0 - RATE_LIMIT_SECONDS ELSE t

\* a cache file that an earlier run of the program left
OldStore == JsonDump(Put(<<>>, DiskKey(<<"b">>, 6), <<CandA>>))

\* what the program can find at CACHE_FILE when it starts; null stands for
\* the JSON documents that are not an object
FileStates == {NoFile, Unreadable, NotJson, JsonNull, OldStore}

NoSession == [k \in AllKeys |-> IF k = KeyStart THEN [NoAddr EXCEPT !.txt = DefaultStart]
                                                ELSE NoAddr]

\* The program starts and finds `file` at CACHE_FILE; line 148 loads it.
StartWith(file, fields) ==
    /\ LOCATIONIQ_KEY \in BOOLEAN
    /\ GEOCODE_DISK = LoadJson(file).map
    /\ disk_type = LoadJson(file).type
    /\ cacheFile = file
    /\ geocode_source = ""
    /\ geocode_error = NoErr
    /\ producer = <<>>
    /\ last_ts = [c \in Channels |-> Ago(0 - RATE_LIMIT_SECONDS)]
    /\ call = NoCall
    /\ trace = <<>>
    /\ ret = <<>>
    /\ exc = ""
    /\ stops_keys = <<StopKey(0)>>
    /\ session = fields
    /\ close_loop = FALSE
    /\ segments = <<>>
    /\ paths = <<>>
    /\ messages = {}
    /\ runs = 0
    /\ pc = "idle"
    /\ idx = 0
    /\ pts = <<>>
    /\ issues = <<>>
    /\ segs = <<>>
    /\ path_coords_all = <<>>

Start(file) == StartWith(file, NoSession)

\* the first start: there is no cache file
Init == Start(NoFile)

\* the first start, once the user has typed an address into the first stop
InitTyped == StartWith(NoFile, [NoSession EXCEPT ![StopKey(0)].txt = <<"a">>])

\* a start on any cache file
InitStore == \E file \in FileStates : Start(file)

\* the provider of the last request of a log
LastAsked(t) ==
    LET I == {i \in 1 .. Len(t) : t[i].ev = "req"}
    IN  t[CHOOSE i \in I : \A j \in I : j <= i].who

\* the entries a call added to the cache are the answer to its last request
Produced(r) ==
    LET new == (DOMAIN r.m.cache) \ (DOMAIN GEOCODE_DISK)
    IN  [k \in (DOMAIN producer) \cup new |->
            IF k \in new THEN LastAsked(r.m.trace) ELSE producer[k]]

Effects(r) ==
    /\ GEOCODE_DISK' = r.m.cache
    /\ producer' = Produced(r)
    /\ disk_type' = r.m.ctype
    /\ cacheFile' = r.m.disk
    /\ geocode_source' = r.m.src
    /\ geocode_error' = r.m.err
    /\ last_ts' = [c \in Channels |-> Ago(r.m.last[c] - r.m.now)]
    /\ ret' = r.ret
    /\ exc' = r.exc

\* the effects of an engine call, with its log
Apply(r) == Effects(r) /\ trace' = r.m.trace

\* the effects of an engine call made inside the compute handler: its log is
\* not kept
ApplyInHandler(r) == Effects(r) /\ trace' = <<>>

\* A call geocode_candidates(q, limit)
Resolve ==
    \E q \in Texts, limit \in Limits :
        /\ call' = GeoCall(q, limit)
        /\ \E r \in GeocodeCandidates(Machine, q, limit, LOCATIONIQ_KEY) : Apply(r)
        /\ UNCHANGED <<LOCATIONIQ_KEY, uiVars, calcVars>>

\* A call route_osrm_retry(a.lat, a.lon, b.lat, b.lon, tries)
Route ==
    \E a \in {CandA, CandB}, b \in {CandA, CandB}, tries \in Tries :
        /\ call' = RouteCall(a, b, tries)
        /\ \E r \in RouteOsrmRetry(Machine, tries) : Apply(r)
        /\ UNCHANGED <<LOCATIONIQ_KEY, uiVars, calcVars>>

\* A call route_osrm(a.lat, a.lon, b.lat, b.lon)
RouteOnce ==
    \E a \in {CandA, CandB}, b \in {CandA, CandB} :
        /\ call' = OsrmCall(a, b)
        /\ \E r \in RouteOsrm(Machine) : Apply(r)
        /\ UNCHANGED <<LOCATIONIQ_KEY, uiVars, calcVars>>

\* A call _respect_rate_limit(tag)
RateLimit ==
    \E tag \in Channels :
        /\ call' = LimitCall(tag)
        /\ Apply(Return(RespectRateLimit(Machine, tag), <<>>))
        /\ UNCHANGED <<LOCATIONIQ_KEY, uiVars, calcVars>>

\* Time passes while the program waits for its user.
Pass ==
    /\ \E d \in 1 .. RATE_LIMIT_SECONDS :
           last_ts' = [c \in Channels |-> Ago(last_ts[c] - d)]
    /\ call' = NoCall
    /\ trace' = <<>>
    /\ ret' = <<>>
    /\ exc' = ""
    /\ UNCHANGED <<LOCATIONIQ_KEY, GEOCODE_DISK, disk_type, cacheFile, geocode_source,
                   geocode_error, producer, uiVars, calcVars>>

\* The program is started again: line 148 loads the cache file, and the
\* session begins empty.
Restart ==
    /\ pc = "idle"
    /\ GEOCODE_DISK' = LoadJson(cacheFile).map
    /\ disk_type' = LoadJson(cacheFile).type
    /\ geocode_source' = ""
    /\ geocode_error' = NoErr
    /\ producer' = [k \in (DOMAIN producer) \cap (DOMAIN LoadJson(cacheFile).map) |-> producer[k]]
    /\ last_ts' = [c \in Channels |-> Ago(0 - RATE_LIMIT_SECONDS)]
    /\ call' = LoadCall
    /\ trace' = <<>>
    /\ ret' = <<>>
    /\ exc' = ""
    /\ stops_keys' = <<StopKey(0)>>
    /\ session' = NoSession
    /\ close_loop' = FALSE
    /\ segments' = <<>>
    /\ paths' = <<>>
    /\ messages' = {}
    /\ UNCHANGED <<LOCATIONIQ_KEY, cacheFile, runs, calcVars>>

(***************************************************************************)
(* The address fields and the "Calculeaza traseul" handler, lines 615-666. *)
(* The handler runs to its end once started: while pc is not "idle" only   *)
(* its own next step is enabled.  One step is one iteration of one of its  *)
(* loops, with the engine call the iteration makes.  Its locals are gone   *)
(* when it returns.                                                        *)
(***************************************************************************)
NoLocals ==
    /\ idx' = 0
    /\ pts' = <<>>
    /\ issues' = <<>>
    /\ segs' = <<>>
    /\ path_coords_all' = <<>>

NoEngineCall ==
    /\ call' = NoCall
    /\ trace' = <<>>
    /\ ret' = <<>>
    /\ exc' = ""
    /\ UNCHANGED <<LOCATIONIQ_KEY, GEOCODE_DISK, disk_type, cacheFile, geocode_source,
                   geocode_error, producer, last_ts>>

ShownKeys == {KeyStart} \cup {stops_keys[n] : n \in 1 .. Len(stops_keys)}

\* The user edits the text_input of a shown address field.  The texts are
\* shorter than 3 characters, for which _refresh_candidates_if_due does nothing.
SetText ==
    /\ pc = "idle"
    /\ \E key \in ShownKeys, t \in UiTexts :
           session' = [session EXCEPT ![key].txt = t]
    /\ NoEngineCall
    /\ UNCHANGED <<stops_keys, close_loop, segments, paths, messages, runs, calcVars>>

\* The "Adaugare oprire" button, lines 558-562
AddStop ==
    /\ pc = "idle"
    /\ Len(stops_keys) < MaxStops
    /\ stops_keys' = Append(stops_keys, StopKey(Len(stops_keys)))
    /\ NoEngineCall
    /\ UNCHANGED <<session, close_loop, segments, paths, messages, runs, calcVars>>

\* list.remove(k): the list without the first occurrence of k
ListRemove(keys, k) ==
    LET i == CHOOSE i \in 1 .. Len(keys) :
                 keys[i] = k /\ \A j \in 1 .. i - 1 : keys[j] # k
    IN  SubSeq(keys, 1, i - 1) \o SubSeq(keys, i + 1, Len(keys))

\* lines 573-575: the session entry of a removed key.  st.session_state[key],
\* written at lines 411 and 436, is not among the values popped.
Popped(e) == [e EXCEPT !.txt = <<>>, !.lat = 0, !.lon = 0, !.display = <<>>]

\* lines 569-576 on the keys of remove_list, in its order
RECURSIVE ApplyRemovals(_, _, _)
ApplyRemovals(keys, sess, remove_list) ==
    IF remove_list = <<>> THEN [keys |-> keys, sess |-> sess]
    ELSE LET k == Head(remove_list) IN
         ApplyRemovals(IF \E i \in 1 .. Len(keys) : keys[i] = k
                       THEN ListRemove(keys, k) ELSE keys,
                       [sess EXCEPT ![k] = Popped(@)],
                       Tail(remove_list))

\* The "x" button of the row n of the stop list, line 393, and the removal
\* it asks for, lines 568-577
RemoveStop ==
    /\ pc = "idle"
    /\ \E n \in 1 .. Len(stops_keys) :
           LET after == ApplyRemovals(stops_keys, session, <<stops_keys[n]>>) IN
           /\ stops_keys' = after.keys
           /\ session' = after.sess
    /\ NoEngineCall
    /\ UNCHANGED <<close_loop, segments, paths, messages, runs, calcVars>>

\* The "Sterge toate opririle" button, lines 563-565, and the removal it
\* asks for, which an empty list does not start (line 570)
RemoveAll ==
    /\ pc = "idle"
    /\ stops_keys # <<>>
    /\ LET after == ApplyRemovals(stops_keys, session, stops_keys) IN
       /\ stops_keys' = after.keys
       /\ session' = after.sess
    /\ NoEngineCall
    /\ UNCHANGED <<close_loop, segments, paths, messages, runs, calcVars>>

\* The user ticks or unticks the checkbox of lines 580-581
SetCloseLoop ==
    /\ pc = "idle"
    /\ close_loop' = ~close_loop
    /\ NoEngineCall
    /\ UNCHANGED <<stops_keys, session, segments, paths, messages, runs, calcVars>>

\* Python's `a or b` on two strings
Or(a, b) == IF a # <<>> THEN a ELSE b

\* km_round(x, decimals), lines 152-154: x in thousandths of a kilometre, the
\* result in units of 10^-decimals km
Pow10(d) == IF d = 0 THEN 1 ELSE IF d = 1 THEN 10 ELSE 100

\* km_round without the + 0.5
km_round_down(x, decimals) == (x * Pow10(decimals)) \div 1000

km_round(x, decimals) == (2 * x * Pow10(decimals) + 1000) \div 2000

\* the whole metres below MaxMetres, and those around the 12.34 km of
\* _run_basic_tests, as floats of kilometres
MaxMetres == 160

Kilometres == {Thousandths(d, 1000) : d \in (0 .. MaxMetres) \cup (12340 .. 12350)}

\* A call km_round(x, decimals)
KmRound ==
    \E x \in Kilometres, decimals \in 0 .. 2 :
        /\ call' = RoundCall(x, decimals)
        /\ ret' = <<km_round(x, decimals)>>
        /\ trace' = <<>>
        /\ exc' = ""
        /\ UNCHANGED <<LOCATIONIQ_KEY, GEOCODE_DISK, disk_type, cacheFile, geocode_source,
                       geocode_error, producer, last_ts, uiVars, calcVars>>

\* _collect_point_from_state(key) on the session entry e of the key: the ways
\* it can run, each with the entry it leaves, the point it returns (<<>> for
\* None) and the geocode_candidates call it made, if any.
CollectPointFromState(m, e, haveKey) ==
    LET txt == Strip(Or(e.txt, e.alias))
        disp == Or(Or(e.display, e.alias), txt)
    IN  IF e.lat # 0 /\ e.lon # 0
        THEN {[m |-> m, entry |-> e, called |-> FALSE, q |-> txt, ret |-> <<>>, exc |-> "",
               pt |-> <<[lat |-> e.lat, lon |-> e.lon, display |-> Or(disp, txt)]>>]}
        ELSE IF txt # <<>>
        THEN { IF r.exc = "" /\ r.ret # <<>>
               THEN LET c == r.ret[1] IN
                    [m |-> r.m, called |-> TRUE, q |-> txt, ret |-> r.ret, exc |-> r.exc,
                     entry |-> [e EXCEPT !.lat = c.lat, !.lon = c.lon,
                                         !.display = c.display, !.alias = c.display],
                     pt |-> <<[lat |-> c.lat, lon |-> c.lon, display |-> c.display]>>]
               ELSE [m |-> r.m, called |-> TRUE, q |-> txt, ret |-> r.ret, exc |-> r.exc,
                     entry |-> e, pt |-> <<>>]
             : r \in GeocodeCandidates(m, txt, 1, haveKey) }
        ELSE {[m |-> m, entry |-> e, called |-> FALSE, q |-> txt, ret |-> <<>>, exc |-> "",
               pt |-> <<>>]}

\* The "Calculeaza traseul" button is pressed, lines 615-618; the checkbox of
\* line 580 has the value the user gave it.
CalcBeginUpTo(most) ==
    /\ pc = "idle"
    /\ runs < most
    /\ runs' = runs + 1
    /\ pc' = "collect"
    /\ close_loop' \in BOOLEAN
    /\ messages' = {}
    /\ NoLocals
    /\ NoEngineCall
    /\ UNCHANGED <<stops_keys, session, segments, paths>>

CalcBegin == CalcBeginUpTo(MaxRuns)

\* The button, for a user who presses it once more
CalcAgain == CalcBeginUpTo(MaxRuns + 1)

\* lines 620-633: the start (idx = 0), then the stops in the order of stops_keys
CalcCollect ==
    /\ pc = "collect"
    /\ idx <= Len(stops_keys)
    /\ LET key == IF idx = 0 THEN KeyStart ELSE stops_keys[idx] IN
       \E x \in CollectPointFromState(Machine, session[key], LOCATIONIQ_KEY) :
           /\ session' = [session EXCEPT ![key] = x.entry]
           /\ pts' = pts \o x.pt
           /\ issues' = IF x.pt = <<>> THEN Append(issues, key) ELSE issues
           /\ call' = IF x.called THEN GeoCall(x.q, 1) ELSE NoCall
           /\ ApplyInHandler([m |-> x.m, ret |-> x.ret, exc |-> x.exc])
    /\ idx' = idx + 1
    /\ UNCHANGED <<LOCATIONIQ_KEY, stops_keys, close_loop, segments, paths, messages, runs,
                   pc, segs, path_coords_all>>

\* lines 635-643
CalcCheck ==
    /\ pc = "collect"
    /\ idx > Len(stops_keys)
    /\ LET warned == IF issues # <<>> THEN {"warning"} ELSE {} IN
       IF Len(pts) < 2
       THEN /\ messages' = warned \cup {"error"}
            /\ pc' = "idle"
            /\ NoLocals
       ELSE /\ messages' = warned
            /\ pc' = IF Len(pts) - 1 >= 1 THEN "route" ELSE "close"
            /\ idx' = 1
            /\ segs' = <<>>
            /\ path_coords_all' = <<>>
            /\ UNCHANGED <<pts, issues>>
    /\ NoEngineCall
    /\ UNCHANGED <<stops_keys, session, close_loop, segments, paths, runs>>

DEFAULT_TRIES == 2

\* lines 645-651 and 654-660: the segment from a to b out of the result of
\* route_osrm_retry, and path_coords_all after it
Segment(a, b, res) ==
    [from |-> a.display, to |-> b.display,
     km_oneway |-> km_round(IF res = <<>> THEN 0 ELSE res[1].km, 1)]

WithCoords(all, res) ==
    IF res # <<>> /\ res[1].coords # <<>> THEN Append(all, res[1].coords) ELSE all

\* CalcSegment appending a segment only when the routing gave a result
CalcSegmentSkipAbsent ==
    /\ pc = "route"
    /\ idx <= Len(pts) - 1
    /\ LET a == pts[idx]
           b == pts[idx + 1]
       IN  \E r \in RouteOsrmRetry(Machine, DEFAULT_TRIES) :
               /\ call' = RouteCall(a, b, DEFAULT_TRIES)
               /\ ApplyInHandler(r)
               /\ segs' = IF r.ret = <<>> THEN segs ELSE Append(segs, Segment(a, b, r.ret))
               /\ path_coords_all' = WithCoords(path_coords_all, r.ret)
    /\ idx' = idx + 1
    /\ pc' = IF idx + 1 <= Len(pts) - 1 THEN "route" ELSE "close"
    /\ UNCHANGED <<LOCATIONIQ_KEY, uiVars, pts, issues>>

\* lines 644-651: the iteration i = idx - 1 of the loop over the pairs
CalcSegment ==
    /\ pc = "route"
    /\ idx <= Len(pts) - 1
    /\ LET a == pts[idx]
           b == pts[idx + 1]
       IN  \E r \in RouteOsrmRetry(Machine, DEFAULT_TRIES) :
               /\ call' = RouteCall(a, b, DEFAULT_TRIES)
               /\ ApplyInHandler(r)
               /\ segs' = Append(segs, Segment(a, b, r.ret))
               /\ path_coords_all' = WithCoords(path_coords_all, r.ret)
    /\ idx' = idx + 1
    /\ pc' = IF idx + 1 <= Len(pts) - 1 THEN "route" ELSE "close"
    /\ UNCHANGED <<LOCATIONIQ_KEY, uiVars, pts, issues>>

\* CalcClose with a, b = pts[0], pts[-1]
CalcCloseReversed ==
    /\ pc = "close"
    /\ close_loop /\ Len(pts) >= 2
    /\ LET a == pts[1]
           b == pts[Len(pts)]
       IN  \E r \in RouteOsrmRetry(Machine, DEFAULT_TRIES) :
               /\ call' = RouteCall(a, b, DEFAULT_TRIES)
               /\ ApplyInHandler(r)
               /\ segs' = Append(segs, Segment(a, b, r.ret))
               /\ path_coords_all' = WithCoords(path_coords_all, r.ret)
    /\ pc' = "store"
    /\ UNCHANGED <<LOCATIONIQ_KEY, uiVars, idx, pts, issues>>

\* lines 653-660: the closing segment
CalcClose ==
    /\ pc = "close"
    /\ close_loop /\ Len(pts) >= 2
    /\ LET a == pts[Len(pts)]
           b == pts[1]
       IN  \E r \in RouteOsrmRetry(Machine, DEFAULT_TRIES) :
               /\ call' = RouteCall(a, b, DEFAULT_TRIES)
               /\ ApplyInHandler(r)
               /\ segs' = Append(segs, Segment(a, b, r.ret))
               /\ path_coords_all' = WithCoords(path_coords_all, r.ret)
    /\ pc' = "store"
    /\ UNCHANGED <<LOCATIONIQ_KEY, uiVars, idx, pts, issues>>

\* lines 662-666
CalcStore ==
    /\ \/ pc = "store"
       \/ pc = "close" /\ ~(close_loop /\ Len(pts) >= 2)
    /\ segments' = segs
    /\ paths' = path_coords_all
    /\ messages' = messages
                     \cup (IF \E n \in 1 .. Len(segs) : segs[n].km_oneway = 0
                           THEN {"info"} ELSE {})
                     \cup {"success"}
    /\ pc' = "idle"
    /\ NoLocals
    /\ NoEngineCall
    /\ UNCHANGED <<stops_keys, session, close_loop, runs>>

(***************************************************************************)
(* Specifications.  Spec: the calls of the resolver.  SpecRoute: the calls *)
(* of the routing client.  SpecCalc: the address fields and the compute    *)
(* handler, with the engine calls the handler makes.                       *)
(***************************************************************************)
Next == Resolve

Spec == Init /\ [][Next]_vars

NextRoute == Route

SpecRoute == Init /\ [][NextRoute]_vars

NextCalc ==
    \/ SetText
    \/ AddStop
    \/ CalcBegin
    \/ CalcCollect
    \/ CalcCheck
    \/ CalcSegment
    \/ CalcClose
    \/ CalcStore

SpecCalc == Init /\ [][NextCalc]_vars

NextStore ==
    \/ Resolve
    \/ Restart

SpecStore == InitStore /\ [][NextStore]_vars

NextRound == KmRound

SpecRound == Init /\ [][NextRound]_vars

NextLimiter ==
    \/ RateLimit
    \/ RouteOnce
    \/ Pass

SpecLimiter == Init /\ [][NextLimiter]_vars

\* the stop list and its buttons
NextStops ==
    \/ SetText
    \/ AddStop
    \/ RemoveStop
    \/ RemoveAll
    \/ SetCloseLoop

SpecStops == Init /\ [][NextStops]_vars

\* the compute handler run again after the stops were removed
NextRerun ==
    \/ RemoveAll
    \/ CalcAgain
    \/ CalcCollect
    \/ CalcCheck
    \/ CalcSegment
    \/ CalcClose
    \/ CalcStore

SpecRerun == InitTyped /\ [][NextRerun]_vars

\* the calls that make requests: geocode_candidates and route_osrm
NextAttempts ==
    \/ Resolve
    \/ RouteOnce

SpecAttempts == Init /\ [][NextAttempts]_vars

(***************************************************************************)
(* Reading the log of the latest call.                                     *)
(***************************************************************************)
IsGeo == call.fn = "geocode"

IsRoute == call.fn = "route"

ReqIdx == {i \in 1 .. Len(trace) : trace[i].ev = "req"}

ReqsTo(p) == {i \in ReqIdx : trace[i].who = p}

RaisedBy(p) == {i \in ReqsTo(p) : trace[i].res = "raise"}

\* the providers the chain holds under the configured credential, in order
Chain == IF LOCATIONIQ_KEY THEN <<"LocationIQ", "Nominatim", "maps.co">>
         ELSE <<"Nominatim", "maps.co">>

ChainSet == {Chain[i] : i \in 1 .. Len(Chain)}

Rank(p) == CASE p = "LocationIQ" -> 1 [] p = "Nominatim" -> 2 [] p = "maps.co" -> 3

\* the attempt budget the specification gives each provider
Budget(p) == CASE p = "LocationIQ" -> 1 [] p = "Nominatim" -> 2 [] p = "maps.co" -> 1

FailedThroughout(p) ==
    /\ Cardinality(ReqsTo(p)) = Budget(p)
    /\ RaisedBy(p) = ReqsTo(p)

CallKey == DiskKey(Strip(call.q), call.limit)

(***************************************************************************)
(* C1  Fallback completeness: when the first consulted provider raises on  *)
(* every one of its attempts, the call requests the next provider of the   *)
(* chain before it returns; when every provider raises on every attempt,   *)
(* the call returns the empty list; and no exception leaves the call.      *)
(***************************************************************************)
C1_FallbackCompleteness ==
    IsGeo =>
        /\ exc = ""
        /\ FailedThroughout(Chain[1]) => ReqsTo(Chain[2]) # {}
        /\ (\A p \in ChainSet : FailedThroughout(p)) => ret = <<>>

C1_Witness ==
    /\ IsGeo
    /\ LOCATIONIQ_KEY
    /\ \A p \in ChainSet : FailedThroughout(p)
    /\ ret = <<>>
    /\ exc = ""

(***************************************************************************)
(* C2  Every entry of the cache mapping holds a non-empty candidate list.  *)
(***************************************************************************)
C2_OnlyNonEmptyCached ==
    \A k \in DOMAIN GEOCODE_DISK : GEOCODE_DISK[k] # <<>>

(***************************************************************************)
(* C3  Cache hit: a call whose key is in the cache returns the stored      *)
(* list, makes no provider request and no rate-limiter call (its log is    *)
(* empty), and leaves the cache as it was; and a call that follows a call  *)
(* of the same key, the key being cached, returns the same list again.     *)
(***************************************************************************)
C3_CacheHit ==
    [][ LET q_eff == Strip(call'.q)
            key == DiskKey(q_eff, call'.limit)
        IN  (call'.fn = "geocode" /\ q_eff # <<>> /\ key \in DOMAIN GEOCODE_DISK) =>
                /\ ret' = GEOCODE_DISK[key]
                /\ exc' = ""
                /\ trace' = <<>>
                /\ GEOCODE_DISK' = GEOCODE_DISK
                /\ cacheFile' = cacheFile
                /\ (IsGeo /\ CallKey = key) => ret' = ret
      ]_vars

C3_Witness ==
    /\ IsGeo
    /\ Strip(call.q) # <<>>
    /\ trace = <<>>
    /\ CallKey \in DOMAIN GEOCODE_DISK
    /\ ret = GEOCODE_DISK[CallKey]
    /\ Len(ret) = 2

(***************************************************************************)
(* C4  The call returns the empty list only after every provider of the    *)
(* chain has been requested and has yielded no candidates.                 *)
(***************************************************************************)
C4_EmptyOnlyAfterWholeChain ==
    (IsGeo /\ Strip(call.q) # <<>> /\ ret = <<>> /\ exc = "") =>
        \A p \in ChainSet : \E i \in ReqsTo(p) : trace[i].res # "cands"

(***************************************************************************)
(* C5  Priority order: a request to a provider comes only after every      *)
(* provider before it in the chain has spent its whole attempt budget on   *)
(* failures, requests never go back up the chain, and no request follows a *)
(* request that returned candidates.                                       *)
(***************************************************************************)
C5_PriorityOrder ==
    IsGeo =>
        \A j \in ReqIdx :
            /\ \A h \in ChainSet :
                   Rank(h) < Rank(trace[j].who) =>
                       Cardinality({i \in RaisedBy(h) : i < j}) = Budget(h)
            /\ \A i \in ReqIdx :
                   i < j => /\ trace[i].res # "cands"
                            /\ Rank(trace[i].who) <= Rank(trace[j].who)

C5_Witness ==
    /\ IsGeo
    /\ LOCATIONIQ_KEY
    /\ \E j \in ReqsTo("maps.co") : trace[j].res = "cands"
    /\ ret # <<>>

(***************************************************************************)
(* C6  Without the LocationIQ credential the call makes no request to      *)
(* LocationIQ, every rate-limiter call it makes is directly followed by a  *)
(* request to another provider, and its first request goes to Nominatim.   *)
(***************************************************************************)
C6_NoKeyNoLocationIQ ==
    (IsGeo /\ ~LOCATIONIQ_KEY) =>
        /\ ReqsTo("LocationIQ") = {}
        /\ \A i \in 1 .. Len(trace) :
               trace[i].ev = "rl" =>
                   /\ i < Len(trace)
                   /\ trace[i + 1].ev = "req"
                   /\ trace[i + 1].who # "LocationIQ"
        /\ \A j \in ReqIdx :
               (\A i \in ReqIdx : j <= i) => trace[j].who = "Nominatim"

C6_Witness ==
    /\ IsGeo
    /\ ~LOCATIONIQ_KEY
    /\ ReqsTo("Nominatim") # {}
    /\ ReqsTo("LocationIQ") = {}

(***************************************************************************)
(* C7  When the call returns the empty list after the whole chain yielded  *)
(* nothing, the recorded error is that of the last failure of the call.    *)
(***************************************************************************)
LastFailure ==
    LET F == {i \in ReqIdx : trace[i].res = "raise"}
        last == CHOOSE i \in F : \A j \in F : j <= i
    IN  IF F = {} THEN NoErr ELSE <<trace[last].who, trace[last].err>>

C7_LastFailureRecorded ==
    (IsGeo /\ ret = <<>> /\ exc = "" /\ ReqsTo("maps.co") # {}) =>
        geocode_error = LastFailure

(***************************************************************************)
(* C8  route_osrm_retry makes at most max(1, tries) calls of route_osrm,   *)
(* returns the first result that is not None and makes no call after it,   *)
(* and returns None only when all max(1, tries) calls returned None.       *)
(***************************************************************************)
Absent(i) == trace[i].val = <<>>

RetryContract(most) ==
    /\ exc = ""
    /\ Cardinality(ReqsTo("OSRM")) <= most
    /\ ret # <<>> =>
           \E j \in ReqsTo("OSRM") :
               /\ ret = trace[j].val
               /\ \A i \in ReqsTo("OSRM") : i <= j /\ (i < j => Absent(i))
    /\ ret = <<>> =>
           /\ \A i \in ReqsTo("OSRM") : Absent(i)
           /\ Cardinality(ReqsTo("OSRM")) = Max(1, call.tries)

C8_RetryUpToMaxOneTries == IsRoute => RetryContract(Max(1, call.tries))

\* the claim as stated: at most `tries` calls
C8_RetryUpToTries == IsRoute => RetryContract(call.tries)

\* one failure, then a success: the success is returned
C8_Witness ==
    /\ IsRoute
    /\ call.tries = 2
    /\ Cardinality(ReqsTo("OSRM")) = 2
    /\ \E i \in ReqsTo("OSRM") : trace[i].res = "raise"
    /\ ret # <<>>

(***************************************************************************)
(* C9  Assembler cardinality and order: when the compute handler returns   *)
(* with N >= 2 collected points, the segment list it stored has N - 1      *)
(* segments without the loop option and N with it, segment i runs from     *)
(* point i to point i + 1, and the N-th runs from the last point back to   *)
(* the first.                                                              *)
(***************************************************************************)
HandlerReturns == pc # "idle" /\ pc' = "idle"

C9_SegmentsOfItinerary ==
    [][ (HandlerReturns /\ Len(pts) >= 2) =>
            LET N == Len(pts) IN
            /\ Len(segments') = IF close_loop THEN N ELSE N - 1
            /\ \A i \in 1 .. N - 1 :
                   /\ segments'[i].from = pts[i].display
                   /\ segments'[i].to = pts[i + 1].display
            /\ close_loop =>
                   /\ segments'[N].from = pts[N].display
                   /\ segments'[N].to = pts[1].display
      ]_vars

\* three points of which the first two differ, with the loop closed
C9_Witness ==
    /\ pc = "idle"
    /\ "success" \in messages
    /\ close_loop
    /\ Len(segments) = 3
    /\ segments[1].from # segments[1].to
    /\ segments[3].to = segments[1].from
    /\ segments[3].from = segments[2].to

(***************************************************************************)
(* C10  A routing call that returns None does not end the computation:     *)
(* the iteration still appends its segment, with km_oneway = 0, and the    *)
(* handler goes on; the stored list holds a segment for every pair; and    *)
(* the handler shows its notice exactly when a stored segment has          *)
(* km_oneway = 0.                                                          *)
(***************************************************************************)
C10_FailedRouteKeepsSegment ==
    [][ /\ (pc \in {"route", "close"} /\ call'.fn = "route") =>
               /\ exc' = ""
               /\ pc' \in {"route", "close", "store"}
               /\ Len(segs') = Len(segs) + 1
               /\ SubSeq(segs', 1, Len(segs)) = segs
               /\ segs'[Len(segs')].from = call'.a.display
               /\ segs'[Len(segs')].to = call'.b.display
               /\ ret' = <<>> => segs'[Len(segs')].km_oneway = 0
        /\ (HandlerReturns /\ Len(pts) >= 2) =>
               /\ segments' = segs
               /\ Len(segs) >= Len(pts) - 1
               /\ ("info" \in messages') <=>
                      (\E n \in 1 .. Len(segments') : segments'[n].km_oneway = 0)
      ]_vars

\* the routing of the second pair returned None after the first pair was routed
C10_Witness ==
    /\ call.fn = "route"
    /\ ret = <<>>
    /\ Len(segs) = 2
    /\ segs[1].km_oneway > 0
    /\ segs[2].km_oneway = 0
(***************************************************************************)
(* Reading the times of a log t.  The times of a log count from the        *)
(* beginning of its call, where the state before the call has its present. *)
(***************************************************************************)
EndOf(t) == IF t = <<>> THEN 0 ELSE t[Len(t)].at

StartOf(e) == e.at - e.dur

RlIdx(t, c) == {i \in 1 .. Len(t) : t[i].ev = "rl" /\ t[i].who = c}

ChannelOf(who) == IF who = "OSRM" THEN "route" ELSE "geo"

OutIdx(t, c) == {i \in 1 .. Len(t) : t[i].ev = "req" /\ ChannelOf(t[i].who) = c}

Latest(S) == CHOOSE i \in S : \A j \in S : j <= i

\* the time recorded by the _respect_rate_limit(c) before the event i of t,
\* `before` being the timestamps the call began with
PrevRecord(t, i, c, before) ==
    LET E == {j \in RlIdx(t, c) : j < i} IN
    IF E = {} THEN before[c] ELSE t[Latest(E)].at

(***************************************************************************)
(* C11  Rate limiter spacing: a call of _respect_rate_limit on a channel   *)
(* returns no earlier than RATE_LIMIT_SECONDS after the time recorded by   *)
(* the previous call on that channel; the time it leaves recorded for the  *)
(* channel is the time of its return; and a request on a channel starts no *)
(* earlier than RATE_LIMIT_SECONDS after the start of the request before   *)
(* it on that channel.                                                     *)
(***************************************************************************)
C11_RateLimiterSpacing ==
    [][ \A c \in Channels :
            /\ \A i \in RlIdx(trace', c) :
                   trace'[i].at >= PrevRecord(trace', i, c, last_ts) + RATE_LIMIT_SECONDS
            /\ RlIdx(trace', c) # {} =>
                   last_ts'[c] = Ago(trace'[Latest(RlIdx(trace', c))].at - EndOf(trace'))
            /\ \A j \in OutIdx(trace', c) :
                   /\ \A i \in OutIdx(trace', c) :
                          i < j => StartOf(trace'[j]) >=
                                       StartOf(trace'[i]) + RATE_LIMIT_SECONDS
                   /\ \A i \in OutIdx(trace, c) :
                          StartOf(trace'[j]) >=
                              (StartOf(trace[i]) - EndOf(trace)) + RATE_LIMIT_SECONDS
      ]_vars

\* a request 0.3 s after the request before it: the limiter slept 0.7 s
C11_Witness ==
    /\ call.fn = "route_osrm"
    /\ trace # <<>>
    /\ trace[1].ev = "rl"
    /\ trace[1].dur = 7
    /\ OutIdx(trace, "route") # {}
    /\ last_ts["route"] = 0

(***************************************************************************)
(* C12  The channels are independent: a call that makes no                 *)
(* _respect_rate_limit on a channel leaves the time recorded for that      *)
(* channel as it was, and how long a _respect_rate_limit on a channel      *)
(* sleeps is given by the time recorded for that channel alone: it does    *)
(* not sleep when that time is RATE_LIMIT_SECONDS back or more, however    *)
(* recent the other channel's is.                                          *)
(***************************************************************************)
C12_ChannelsIndependent ==
    [][ \A c \in Channels :
            /\ (trace' # <<>> /\ RlIdx(trace', c) = {}) =>
                   last_ts'[c] = Ago(last_ts[c] - EndOf(trace'))
            /\ \A i \in RlIdx(trace', c) :
                   LET since == StartOf(trace'[i]) - PrevRecord(trace', i, c, last_ts) IN
                   trace'[i].dur = IF since < RATE_LIMIT_SECONDS
                                   THEN RATE_LIMIT_SECONDS - since ELSE 0
      ]_vars

\* a routing request that did not wait, right after a call on the geocoding
\* channel
C12_Witness ==
    /\ call.fn = "route_osrm"
    /\ trace # <<>>
    /\ trace[1].ev = "rl"
    /\ trace[1].who = "route"
    /\ trace[1].dur = 0
    /\ EndOf(trace) = 0
    /\ last_ts["geo"] = 0
(***************************************************************************)
(* C13  route_osrm never raises.  It makes one request; it returns None    *)
(* when the request fails (timeout, rejected status, unparsable body) and  *)
(* when the response lacks the routes array or holds an empty one; and     *)
(* otherwise it returns, as kilometres, the distance in metres of the      *)
(* first route of the response.  (km is in thousandths of a kilometre:     *)
(* the kilometres of d metres are d thousandths.)                          *)
(***************************************************************************)
C13_RouteOsrmNeverRaises ==
    call.fn = "route_osrm" =>
        /\ exc = ""
        /\ Cardinality(ReqsTo("OSRM")) = 1
        /\ \A i \in ReqsTo("OSRM") :
               LET o == trace[i].raw IN
               /\ o.kind = "raise" => ret = <<>>
               /\ (o.kind = "ok" /\ ~o.has_routes) => ret = <<>>
               /\ (o.kind = "ok" /\ o.has_routes /\ o.routes = <<>>) => ret = <<>>
               /\ (o.kind = "ok" /\ o.has_routes /\ o.routes # <<>>) =>
                      /\ Len(ret) = 1
                      /\ ret[1].km = o.routes[1].distance

\* a response with two routes: the distance of the first one is returned
C13_Witness ==
    /\ call.fn = "route_osrm"
    /\ exc = ""
    /\ \E i \in ReqsTo("OSRM") :
           /\ Len(trace[i].raw.routes) = 2
           /\ trace[i].raw.routes[1].distance # trace[i].raw.routes[2].distance
           /\ ret # <<>>
           /\ ret[1].km = 40
(***************************************************************************)
(* C14  Half-up rounding: km_round of the kilometres of m whole metres, at *)
(* 1 decimal, is floor((m + 50) / 100) tenths of a kilometre; at d         *)
(* decimals it is floor(x * 10^d + 0.5) units of 10^-d km.  So 12.34 km    *)
(* and 12.345 km (12345 metres) both give 12.3.                            *)
(***************************************************************************)
C14_HalfUpRounding ==
    call.fn = "km_round" =>
        LET m == call.x IN
        /\ Len(ret) = 1
        /\ call.decimals = 1 => ret[1] = (m + 50) \div 100
        /\ 1000 * ret[1] <= m * Pow10(call.decimals) + 500
        /\ m * Pow10(call.decimals) + 500 < 1000 * (ret[1] + 1)
        /\ (m \in {12340, 12345} /\ call.decimals = 1) => ret[1] = 123

C14_Witness ==
    /\ call.fn = "km_round"
    /\ call.x = 12345
    /\ call.decimals = 1
    /\ ret = <<123>>
(***************************************************************************)
(* C18  Every segment the compute handler built or stored has              *)
(* km_oneway >= 0.                                                         *)
(***************************************************************************)
C18_KmOneWayNonNegative ==
    /\ \A n \in 1 .. Len(segs) : segs[n].km_oneway >= 0
    /\ \A n \in 1 .. Len(segments) : segments[n].km_oneway >= 0
(***************************************************************************)
(* Reading the cache-file writes of a log.                                 *)
(***************************************************************************)
SaveFailed(t) == \E i \in 1 .. Len(t) : t[i].ev = "save" /\ t[i].res = "failed"

SaveOk(t) == \E i \in 1 .. Len(t) : t[i].ev = "save" /\ t[i].res = "ok"

(***************************************************************************)
(* C15  A failing write of the cache file is not fatal: the call during    *)
(* which it fails raises nothing, returns what the provider that answered  *)
(* returned, and leaves that list in the cache under the key of the call;  *)
(* and the next call, when it has the same key, makes no request and       *)
(* returns the same list.                                                  *)
(***************************************************************************)
C15_FailedSaveNotFatal ==
    [][ LET key == DiskKey(Strip(call'.q), call'.limit) IN
        /\ (call'.fn = "geocode" /\ SaveFailed(trace')) =>
               /\ exc' = ""
               /\ \E i \in 1 .. Len(trace') :
                      /\ trace'[i].ev = "req"
                      /\ trace'[i].res # "raise"
                      /\ \A j \in i + 1 .. Len(trace') : trace'[j].ev # "req"
                      /\ ret' = trace'[i].val
               /\ key \in DOMAIN GEOCODE_DISK'
               /\ GEOCODE_DISK'[key] = ret'
        /\ (IsGeo /\ SaveFailed(trace) /\ call'.fn = "geocode" /\ key = CallKey) =>
               /\ exc' = ""
               /\ trace' = <<>>
               /\ ret' = ret
      ]_vars

\* a cache hit on an entry that the cache file does not hold
C15_Witness ==
    /\ IsGeo
    /\ trace = <<>>
    /\ ret # <<>>
    /\ CallKey \in DOMAIN GEOCODE_DISK
    /\ ret = GEOCODE_DISK[CallKey]
    /\ CallKey \notin DOMAIN LoadJson(cacheFile).map

(***************************************************************************)
(* C16  Persistence round trip: after a call that wrote the cache file,    *)
(* loading the file gives a dict equal to the whole cache mapping, key for *)
(* key and field for field; and a start of the program right after such a  *)
(* call begins with that mapping.                                          *)
(***************************************************************************)
C16_PersistenceRoundTrip ==
    [][ /\ (call'.fn = "geocode" /\ SaveOk(trace')) =>
               LoadJson(cacheFile') = [type |-> "dict", map |-> GEOCODE_DISK']
        /\ (IsGeo /\ SaveOk(trace) /\ call'.fn = "_load_json") =>
               /\ disk_type' = "dict"
               /\ GEOCODE_DISK' = GEOCODE_DISK
      ]_vars

\* a start that loaded two entries, one of them with two candidates
C16_Witness ==
    /\ call.fn = "_load_json"
    /\ disk_type = "dict"
    /\ Cardinality(DOMAIN GEOCODE_DISK) >= 2
    /\ \E k \in DOMAIN GEOCODE_DISK : Len(GEOCODE_DISK[k]) = 2

(***************************************************************************)
(* C17  What _load_json returned for the cache file is always a dict.      *)
(***************************************************************************)
C17_LoadReturnsMapping == disk_type = "dict"
(***************************************************************************)
(* C20  Cache entries are written once: every key of the cache stays in    *)
(* the cache with the list it has, whatever the next call is, so the set   *)
(* of keys only grows.                                                     *)
(***************************************************************************)
C20_CacheWriteOnce ==
    [][ \A k \in DOMAIN GEOCODE_DISK :
            /\ k \in DOMAIN GEOCODE_DISK'
            /\ GEOCODE_DISK'[k] = GEOCODE_DISK[k] ]_vars

\* a call that added its entry to a cache that held another one
C20_Witness ==
    /\ IsGeo
    /\ SaveOk(trace) \/ SaveFailed(trace)
    /\ CallKey \in DOMAIN GEOCODE_DISK
    /\ ret = GEOCODE_DISK[CallKey]
    /\ \E k \in DOMAIN GEOCODE_DISK : k # CallKey /\ GEOCODE_DISK[k] # ret
(***************************************************************************)
(* C19  Whenever a call returns a non-empty list, the recorded tag         *)
(* _geocode_source is the provider whose answer that list is, also when    *)
(* the list comes from the cache.                                          *)
(***************************************************************************)
C19_SourceTagNamesProducer ==
    (IsGeo /\ exc = "" /\ ret # <<>>) =>
        /\ CallKey \in DOMAIN producer
        /\ geocode_source = producer[CallKey]
Asked(t, p) == Cardinality({i \in 1 .. Len(t) : t[i].ev = "req" /\ t[i].who = p})

C22_AttemptBudget ==
    /\ IsGeo =>
           /\ Asked(trace, "LocationIQ") <= 1
           /\ Asked(trace, "Nominatim") <= NOMINATIM_ATTEMPTS
           /\ Asked(trace, "maps.co") <= 1
           /\ Cardinality(ReqIdx) <= 4
           /\ ReqIdx = ReqsTo("LocationIQ") \cup ReqsTo("Nominatim") \cup ReqsTo("maps.co")
    /\ \A tries \in Tries :
           \A r \in RouteOsrmRetry(Machine, tries) :
               /\ Asked(r.m.trace, "OSRM") <= Max(1, tries)
               /\ Asked(r.m.trace, "OSRM") = Cardinality(OutIdx(r.m.trace, "route"))

\* a call that used its whole budget, in a state from which route_osrm_retry
\* can use the whole of its own
C22_Witness ==
    /\ IsGeo
    /\ Asked(trace, "LocationIQ") = 1
    /\ Asked(trace, "Nominatim") = 2
    /\ Asked(trace, "maps.co") = 1
    /\ \E r \in RouteOsrmRetry(Machine, MaxTries) : Asked(r.m.trace, "OSRM") = MaxTries
(***************************************************************************)
(* C23  Retry delays occur only between attempts: in the log of a call,    *)
(* every sleep that lasts is followed by another request of the operation  *)
(* that slept, to Nominatim in geocode_candidates and to the routing       *)
(* service in route_osrm_retry; so a route_osrm_retry whose attempts all   *)
(* failed slept one time less than it asked.                               *)
(***************************************************************************)
Delays(t) == {i \in 1 .. Len(t) : t[i].ev = "sleep" /\ t[i].dur > 0}

AsksAgain(t, i, p) == \E j \in i + 1 .. Len(t) : t[j].ev = "req" /\ t[j].who = p

C23_DelaysOnlyBetweenAttempts ==
    /\ IsGeo => \A i \in Delays(trace) : AsksAgain(trace, i, "Nominatim")
    /\ IsRoute =>
           /\ \A i \in Delays(trace) : AsksAgain(trace, i, "OSRM")
           /\ ret = <<>> => Cardinality(Delays(trace)) = Asked(trace, "OSRM") - 1
(***************************************************************************)
(* C24  The keys of the stop list are pairwise distinct, whatever stops    *)
(* were added and removed.                                                 *)
(***************************************************************************)
C24_StopKeysDistinct ==
    \A i, j \in 1 .. Len(stops_keys) : i # j => stops_keys[i] # stops_keys[j]
(***************************************************************************)
(* C25  Segments are fresh: when the latest compute collected fewer than   *)
(* two points, which it reports by its error message, the session holds no *)
(* segments and no paths.                                                  *)
(***************************************************************************)
C25_NoStaleSegments ==
    "error" \in messages => segments = <<>> /\ paths = <<>>
(***************************************************************************)
(* C26  A call whose query is empty once stripped returns [] and raises    *)
(* nothing, makes no rate-limiter call, no request and no write of the     *)
(* cache file, and leaves the cache, the file, the recorded source, the    *)
(* recorded error and the rate-limiter timestamps as they were.            *)
(***************************************************************************)
C26_BlankQueryNoEffect ==
    [][ (call'.fn = "geocode" /\ Strip(call'.q) = <<>>) =>
            /\ ret' = <<>>
            /\ exc' = ""
            /\ trace' = <<>>
            /\ UNCHANGED <<GEOCODE_DISK, disk_type, cacheFile, geocode_source,
                           geocode_error, last_ts>> ]_vars

\* a blank query asked when the cache holds an entry and a source and an
\* error are recorded
C26_Witness ==
    /\ IsGeo
    /\ Strip(call.q) = <<>>
    /\ call.q # <<>>
    /\ GEOCODE_DISK # <<>>
    /\ geocode_source # ""
    /\ geocode_error # NoErr
(***************************************************************************)
(* C27  route_osrm_retry called with tries <= 0 calls route_osrm exactly   *)
(* once and returns what that call returned, raising nothing.              *)
(***************************************************************************)
C27_NoTriesOneCall ==
    (IsRoute /\ call.tries <= 0) =>
        /\ Asked(trace, "OSRM") = 1
        /\ \A i \in ReqsTo("OSRM") : ret = trace[i].val
        /\ exc = ""

\* such a call that found a route
C27_Witness ==
    /\ IsRoute
    /\ call.tries < 0
    /\ Asked(trace, "OSRM") = 1
    /\ ret # <<>>
====
